---- MODULE Spec2Model ----
(***************************************************************************)
(* The real-time WebSocket fan-out service of next-firebase-note-app:      *)
(* the connection directory (a DynamoDB table), the three lifecycle        *)
(* handlers ($connect, $disconnect, $default) and the broadcast endpoint.  *)
(* The repository holds two implementations of the handlers, both          *)
(* modelled here:                                                          *)
(*   "sam"  infrastructure/aws-sam/websocket-handlers  (BroadcastService,  *)
(*          paginated scan, chunked pushes, sent/failed/stale counters)    *)
(*   "sls"  infrastructure/serverless/src/handlers     (one scan, one      *)
(*          Promise.all over every connection)                             *)
(* Every DynamoDB call and every PostToConnection call is one atomic step; *)
(* handlers that make several calls interleave with the other invocations  *)
(* between those calls.  API Gateway's view of each connection (transport) *)
(* is followed in the specifications about connecting and closing clients  *)
(* and left open in the others.  The frontend's AuthService and auth store *)
(* (fe) are modelled next to it: they share no state with the fan-out.     *)
(***************************************************************************)
EXTENDS Integers, Sequences, FiniteSets, TLC

\* Number of connection identifiers the transport hands out in the model.
MaxConn == 3
\* Number of items one ScanCommand returns before it stops with a
\* LastEvaluatedKey (stands for DynamoDB's 1 MB page limit).
PageSize == 2
\* BroadcastService.chunkSize.  The source value is 50; the model scales it
\* down to 2 so that a directory of MaxConn records spans several chunks.
chunkSize == 2

ConnIds == 1..MaxConn
\* event.requestContext.connectionId is undefined
NoId == 0
Impls == {"sam", "sls"}
\* Concurrent invocations of the broadcast endpoint.
Procs == {"b1"}
\* Two invocations of the broadcast endpoint that run at the same time.
Pair == {"b1", "b2"}

VARIABLES
    env,    \* process.env: which configuration values are set
    dir,    \* the connections table: the set of connectionId keys it holds
    items,  \* the connections table: the records (items) it holds
    bc,     \* per broadcast invocation: its position and local variables
    last,   \* the most recent lifecycle-handler invocation and its response
    transport,  \* API Gateway: the state of each WebSocket connection
    fe      \* the browser: Firebase auth, session cookie, auth store, calls

vars == <<env, dir, items, bc, last, transport, fe>>

-----------------------------------------------------------------------------
(* Request bodies and JSON.parse *)

\* event.body is null/undefined
NoBody == "<absent>"
\* The request bodies the broadcast endpoint is called with in the model.
Bodies ==
    { NoBody, "", "{", "null", "5",
      "{\"type\":\"test\"}",
      "{\"data\":{\"x\":1}}",
      "{\"type\":\"test\",\"data\":{\"x\":1}}",
      "{\"type\":\"test\",\"data\":0}",
      "{\"type\":\"test\",\"id\":\"m1\",\"data\":{\"x\":1}}" }

Undefined == [kind |-> "undefined"]
\* The JSON values the bodies above contain.
JNull == [kind |-> "null"]
JNum(n) == [kind |-> "number", n |-> n]
JStr(s) == [kind |-> "string", s |-> s]
JObj(fs) == [kind |-> "object", fields |-> fs]
DataX1 == JObj([x |-> JNum(1)])

\* JSON.parse(event.body): ok = FALSE when it throws a SyntaxError.
JSONParse(body) ==
    CASE body = "null" -> [ok |-> TRUE, val |-> JNull]
      [] body = "5" -> [ok |-> TRUE, val |-> JNum(5)]
      [] body = "{\"type\":\"test\"}" ->
            [ok |-> TRUE, val |-> JObj([type |-> JStr("test")])]
      [] body = "{\"data\":{\"x\":1}}" ->
            [ok |-> TRUE, val |-> JObj([data |-> DataX1])]
      [] body = "{\"type\":\"test\",\"data\":{\"x\":1}}" ->
            [ok |-> TRUE, val |-> JObj([type |-> JStr("test"), data |-> DataX1])]
      [] body = "{\"type\":\"test\",\"data\":0}" ->
            [ok |-> TRUE, val |-> JObj([type |-> JStr("test"), data |-> JNum(0)])]
      [] body = "{\"type\":\"test\",\"id\":\"m1\",\"data\":{\"x\":1}}" ->
            [ok |-> TRUE,
             val |-> JObj([type |-> JStr("test"), id |-> JStr("m1"),
                           data |-> DataX1])]
      [] OTHER -> [ok |-> FALSE, val |-> Undefined]

\* JavaScript truthiness of a value (the ! operator is its negation).
Truthy(v) ==
    CASE v.kind = "undefined" -> FALSE
      [] v.kind = "null" -> FALSE
      [] v.kind = "number" -> v.n # 0
      [] v.kind = "string" -> v.s # ""
      [] OTHER -> TRUE

\* Reading a property of null or undefined throws a TypeError.
PropThrows(v) == v.kind \in {"null", "undefined"}
\* v.f for a value whose properties can be read.
Prop(v, f) ==
    IF v.kind = "object" /\ f \in DOMAIN v.fields THEN v.fields[f] ELSE Undefined

\* !event.body
BodyMissing(body) == body = NoBody \/ body = ""

\* v ?? d
Coalesce(v, d) == IF v.kind \in {"undefined", "null"} THEN d ELSE v

\* JSON.stringify of an object: a property whose value is undefined is left
\* out, every other property is written with its value.
JSONStringify(m) == [f \in {g \in DOMAIN m : m[g].kind # "undefined"} |-> m[f]]

\* randomUUID(); the model does not tell two generated identifiers apart.
randomUUID == [kind |-> "uuid"]
\* new Date().toISOString() at the one place an invocation evaluates it.
toISOString == [kind |-> "timestamp"]

-----------------------------------------------------------------------------
(* Configuration *)

\* validateEnvironment(): TRUE when it returns, FALSE when it throws
\* '... environment variable is required'.
validateEnvironment(e) == e.table /\ e.endpoint
\* The serverless handlers only test process.env.DYNAMODB_CONNECTIONS_TABLE.
tableName(e) == e.table

-----------------------------------------------------------------------------
(* The broadcast endpoint *)

\* Outcomes of one PostToConnectionCommand: it resolves, it is rejected with
\* status 410, or it is rejected with anything else (5xx, throttling, timeout).
PushOutcomes == {"delivered", "gone", "transient"}
\* Outcomes of one DynamoDB command.
StoreOutcomes == {"ok", "error"}

\* Mutant: a push that fails in transit leaves its promise pending.
Settled_TransientPending == {"sent", "reaped", "reapFailed"}

\* res[k], the position of connection k of the enumerated list in the code:
\*   pending     its push has not been issued
\*   reaping     the push was rejected with 410, the DeleteCommand is not yet issued
\*   sent        the push resolved
\*   transient   the push was rejected with something other than 410
\*   reaped      410, and the DeleteCommand succeeded
\*   reapFailed  410, and the DeleteCommand failed
\* out[k] is what the transport answered to its push and att[k] the number
\* of PostToConnectionCommands issued for it.
Settled == {"sent", "transient", "reaped", "reapFailed"}

\* The status the aws-sam broadcast handler answers before it reads the
\* directory, or 0 when the request passes validation.
SamValidate(e, body) ==
    IF ~validateEnvironment(e) THEN 500
    ELSE IF BodyMissing(body) THEN 400
    ELSE IF ~JSONParse(body).ok THEN 400
    ELSE IF PropThrows(JSONParse(body).val) THEN 500
    ELSE IF \/ ~Truthy(Prop(JSONParse(body).val, "type"))
            \/ ~Truthy(Prop(JSONParse(body).val, "data")) THEN 400
    ELSE 0

\* The same for the serverless broadcastToAll: no check of type and data, and
\* JSON.parse and the destructuring both sit in the outer try block.
SlsValidate(e, body) ==
    IF ~tableName(e) THEN 500
    ELSE IF BodyMissing(body) THEN 400
    ELSE IF ~JSONParse(body).ok THEN 500
    ELSE IF PropThrows(JSONParse(body).val) THEN 500
    ELSE 0

Validate(impl, e, body) ==
    IF impl = "sam" THEN SamValidate(e, body) ELSE SlsValidate(e, body)

\* The envelope the aws-sam handler builds from the parsed request.
SamMessage(val) ==
    [type |-> Prop(val, "type"), data |-> Prop(val, "data"),
     timestamp |-> toISOString]

\* The envelope the serverless broadcastToAll builds; ...(meta ? {meta} : {})
\* leaves meta out unless it is truthy.
SlsMessage(val) ==
    [type |-> Prop(val, "type"),
     version |-> Coalesce(Prop(val, "version"), JStr("1")),
     id |-> Coalesce(Prop(val, "id"), randomUUID),
     timestamp |-> toISOString,
     source |-> Coalesce(Prop(val, "source"), JStr("backend")),
     data |-> Prop(val, "data"),
     meta |-> IF Truthy(Prop(val, "meta")) THEN Prop(val, "meta") ELSE Undefined]

\* No envelope has been built.
NoMessage == [kind |-> "none"]
\* No Data has been posted to the position.
NoData == [kind |-> "none"]
NotPosted(n) == [k \in 1..n |-> NoData]

\* Mutant: every push re-stamps the envelope for its recipient.
PostData_PerRecipient(r, k) ==
    JSONStringify([r.message EXCEPT !.timestamp = [kind |-> "timestamp", to |-> k]])

\* The Data of the PostToConnectionCommand for position k: encodeMessage of
\* the one message object in BroadcastService, the one messageData string in
\* the serverless broadcastToAll.
PostData(r, k) == JSONStringify(r.message)

\* Mutant: a broadcast that found no connection is answered as an error.
BroadcastCompleted_EmptyIsError(r) == IF Len(r.conns) = 0 THEN 404 ELSE 200

\* The statusCode of the 'Broadcast completed' response.
BroadcastCompleted(r) == 200

\* message is the envelope of the invocation and posted[k] the Data that
\* was posted to position k of its enumerated list.
Idle ==
    [ impl |-> "sam", pc |-> "idle", body |-> NoBody,
      message |-> NoMessage,
      conns |-> <<>>, cursor |-> 0, scans |-> 0, i |-> 0,
      res |-> <<>>, out |-> <<>>, att |-> <<>>, posted |-> <<>>,
      sent |-> 0, failed |-> 0, stale |-> 0, total |-> 0,
      status |-> 0, storeFailed |-> FALSE, held |-> {} ]

\* Bookkeeping for the properties, not program state: while invocation b
\* scans, held is the set of ids that were in the directory when b was invoked
\* and have not been removed since; storeFailed tells that a DynamoDB call of
\* the invocation has thrown.
Track(f, removed) ==
    [b \in DOMAIN f |->
        [f[b] EXCEPT !.held = IF f[b].pc = "scan" THEN @ \ removed ELSE @]]

\* The handler is invoked: configuration and request validation, no I/O.
\* The aws-sam handler builds its envelope before it calls the service.
Invoke(b, impl, body) ==
    /\ bc[b].pc \in {"idle", "done"}
    /\ LET st == Validate(impl, env, body) IN
       bc' = [bc EXCEPT ![b] =
                [Idle EXCEPT !.impl = impl, !.body = body,
                             !.message = IF st = 0 /\ impl = "sam"
                                         THEN SamMessage(JSONParse(body).val)
                                         ELSE NoMessage,
                             !.pc = IF st = 0 THEN "scan" ELSE "done",
                             !.status = st,
                             !.held = IF st = 0 THEN dir ELSE {}]]
    /\ UNCHANGED <<fe, transport, env, dir, items, last>>

RECURSIVE SortedSeq(_)
\* The keys of S in the table's scan order.
SortedSeq(S) ==
    IF S = {} THEN <<>>
    ELSE LET m == CHOOSE x \in S : \A y \in S : x <= y
         IN <<m>> \o SortedSeq(S \ {m})

\* One ScanCommand with ExclusiveStartKey = cursor on a table whose page
\* holds limit items: at most limit items after the cursor, and a
\* LastEvaluatedKey (0 = undefined) when more follow.
ScanPage(d, cursor, limit) ==
    LET rest == SortedSeq({c \in d : c > cursor}) IN
    IF Len(rest) > limit
    THEN [Items |-> SubSeq(rest, 1, limit), LastEvaluatedKey |-> rest[limit]]
    ELSE [Items |-> rest, LastEvaluatedKey |-> 0]


\* Mutant: getAllConnections stops after its first page.
ScanAgain_OnePage(impl, lek) == FALSE

\* getAllConnections loops while LastEvaluatedKey is set; the serverless
\* broadcastToAll issues a single ScanCommand and ignores LastEvaluatedKey.
ScanAgain(impl, lek) == impl = "sam" /\ lek # 0

Pending(n) == [k \in 1..n |-> "pending"]
NoOutcome(n) == [k \in 1..n |-> "none"]
Zeros(n) == [k \in 1..n |-> 0]

\* A ScanCommand of invocation b settles, on a table whose page holds limit
\* items.
ScanTable(b, o, limit) ==
    /\ bc[b].pc = "scan"
    /\ IF o = "error"
       THEN bc' = [bc EXCEPT ![b].pc = "done", ![b].status = 500,
                             ![b].scans = @ + 1, ![b].held = {},
                             ![b].storeFailed = TRUE]
       ELSE LET r == ScanPage(dir, bc[b].cursor, limit)
                all == bc[b].conns \o r.Items
            IN IF ScanAgain(bc[b].impl, r.LastEvaluatedKey)
               THEN bc' = [bc EXCEPT ![b].conns = all,
                                     ![b].cursor = r.LastEvaluatedKey,
                                     ![b].scans = @ + 1]
               ELSE bc' = [bc EXCEPT ![b].conns = all, ![b].cursor = 0,
                                     ![b].scans = @ + 1, ![b].pc = "push",
                                     ![b].held = {},
                                     ![b].message =
                                        IF bc[b].impl = "sls"
                                        THEN SlsMessage(JSONParse(bc[b].body).val)
                                        ELSE @,
                                     ![b].posted = NotPosted(Len(all)),
                                     ![b].res = Pending(Len(all)),
                                     ![b].out = NoOutcome(Len(all)),
                                     ![b].att = Zeros(Len(all))]
    /\ UNCHANGED <<fe, transport, env, dir, items, last>>

\* A ScanCommand of invocation b settles.
Scan(b, o) == ScanTable(b, o, PageSize)

Min(a, b) == IF a < b THEN a ELSE b

\* The positions of the enumerated list whose pushes are issued together:
\* the current chunk connections.slice(i, i + chunkSize) of BroadcastService,
\* every connection at once in the serverless broadcastToAll.
InFlight(r) ==
    IF r.impl = "sam"
    THEN (r.i + 1)..Min(r.i + chunkSize, Len(r.conns))
    ELSE 1..Len(r.conns)

\* Mutant: the status 410 is only logged, like every other error.
AfterPush_GoneIgnored(o) == IF o = "delivered" THEN "sent" ELSE "transient"

\* Mutant: every rejected push is taken for a stale connection.
AfterPush_AnyErrorGone(o) == IF o = "delivered" THEN "sent" ELSE "reaping"

\* The catch block after PostToConnectionCommand: status 410 starts the
\* removal of the record, every other error is only logged.
AfterPush(o) ==
    CASE o = "delivered" -> "sent"
      [] o = "gone" -> "reaping"
      [] OTHER -> "transient"

\* The DeleteCommand of a stale connection has resolved (ok) or thrown.
AfterReap(ok) == IF ok THEN "reaped" ELSE "reapFailed"

\* The serverless per-connection tasks keep running after Promise.all has
\* rejected and the handler has answered 500.
TasksRun(r) ==
    \/ r.pc = "push"
    \/ r.impl = "sls" /\ r.pc = "done" /\ r.status = 500 /\ r.res # <<>>

\* The state of a connection at API Gateway: the id was never handed out;
\* the handshake runs and $connect is invoked; the PutCommand of $connect
\* has resolved and the handler answers 200, the upgrade is not completed
\* yet; the connection is open; it is closed.
ConnStates == {"none", "connecting", "answered", "open", "closed"}
\* The value of transport in the specifications that leave the state of the
\* connections open: there the transport may answer a push with any outcome.
Untracked == [kind |-> "untracked"]

\* Mutant: a closed connection still takes messages.
PostToConnection_Lingering(tr, c) ==
    IF tr = Untracked THEN PushOutcomes
    ELSE IF tr[c] \in {"open", "closed"} THEN {"delivered", "transient"}
    ELSE {"gone", "transient"}

\* What the @connections API answers to PostToConnectionCommand for
\* connection c: an open connection takes the message or the call fails in
\* transit; for every connection that is not (yet) open the API answers
\* 410 GoneException, or the call fails in transit.
PostToConnection(tr, c) ==
    IF tr = Untracked THEN PushOutcomes
    ELSE IF tr[c] = "open" THEN {"delivered", "transient"}
    ELSE {"gone", "transient"}

\* API Gateway receives the response of $connect: 200 lets the upgrade go
\* on, every other status refuses the connection.
Upgraded(tr, c, st) ==
    IF tr = Untracked \/ c = NoId THEN tr
    ELSE [tr EXCEPT ![c] = IF st = 200 THEN "answered" ELSE "closed"]

\* PostToConnectionCommand for position k of the enumerated list.
Push(b, k, o) ==
    /\ TasksRun(bc[b])
    /\ k \in InFlight(bc[b])
    /\ bc[b].res[k] = "pending"
    /\ o \in PostToConnection(transport, bc[b].conns[k])
    /\ bc' = [bc EXCEPT ![b].res[k] = AfterPush(o), ![b].out[k] = o,
                        ![b].att[k] = @ + 1,
                        ![b].posted[k] = PostData(bc[b], k)]
    /\ UNCHANGED <<fe, transport, env, dir, items, last>>

\* Mutant: the delete takes the key for the upper end of a range.
DeleteCommand_UpTo(d, c, o) ==
    [dir |-> IF o = "ok" THEN {x \in d : x > c} ELSE d, ok |-> o = "ok"]

\* Mutant: the delete carries attribute_exists(connectionId) and throws for
\* an absent key.
DeleteCommand_MustExist(d, c, o) ==
    [dir |-> IF o = "ok" THEN d \ {c} ELSE d, ok |-> o = "ok" /\ c \in d]

\* DeleteCommand({Key: {connectionId: c}}) on the directory d: the directory
\* afterwards and whether the call resolved.  It carries no condition
\* expression, so deleting an absent key resolves like any other delete.
DeleteCommand(d, c, o) ==
    [dir |-> IF o = "ok" THEN d \ {c} ELSE d, ok |-> o = "ok"]

\* PutCommand({Item: {connectionId: c, timestamp, ttl}}): inserts or overwrites.
PutCommand(d, c, o) ==
    [dir |-> IF o = "ok" THEN d \cup {c} ELSE d, ok |-> o = "ok"]

\* The records of the table its that have the key c.
Records(its, c) == {r \in its : r.connectionId = c}

\* Mutant: the put adds its item next to the one the table holds.
PutItem_Append(its, item, o) == IF o = "ok" THEN its \cup {item} ELSE its

\* The same PutCommand on the records: connectionId is the table's hash key,
\* so the item takes the place of the record with its key.
PutItem(its, item, o) ==
    IF o = "ok" THEN (its \ Records(its, item.connectionId)) \cup {item} ELSE its

\* The same DeleteCommand on the records.
DeleteItem(its, c, o) == IF o = "ok" THEN its \ Records(its, c) ELSE its

\* removeStaleConnection / the DeleteCommand in the serverless catch block.
Reap(b, k, o) ==
    /\ TasksRun(bc[b])
    /\ k \in InFlight(bc[b])
    /\ bc[b].res[k] = "reaping"
    /\ LET r == DeleteCommand(dir, bc[b].conns[k], o) IN
       /\ dir' = r.dir
       /\ items' = DeleteItem(items, bc[b].conns[k], o)
       /\ bc' = Track([bc EXCEPT ![b].res[k] = AfterReap(r.ok),
                                ![b].storeFailed = @ \/ ~r.ok], dir \ r.dir)
    /\ UNCHANGED <<fe, transport, env, last>>

\* What Promise.allSettled reports for sendToConnection: it resolves true
\* after a push that resolved and false after every failed push, also when
\* removeStaleConnection caught a failed delete; it never rejects.
SendToConnection(slot) == IF slot = "sent" THEN "true" ELSE "false"

\* Mutant: the per-connection task has no catch around its push.
TaskRejected_NoCatch(slot) == slot \in {"reapFailed", "transient"}

\* The serverless per-connection task rejects only when its delete throws.
TaskRejected(slot) == slot = "reapFailed"

Count(r, ks, v) == Cardinality({k \in ks : SendToConnection(r.res[k]) = v})

\* results.forEach: the counters after the chunk ks has settled.
CountResults(r, ks) ==
    [r EXCEPT !.sent = @ + Count(r, ks, "true"),
              !.stale = @ + Count(r, ks, "false"),
              !.failed = @ + Count(r, ks, "rejected")]

\* Mutant: the chunk loop steps one position too far.
NextChunk_Skip(i) == i + chunkSize + 1

\* The next value of the chunk loop's i.
NextChunk(i) == i + chunkSize

\* Promise.allSettled of the current chunk has resolved.
ChunkSettled(b) ==
    /\ bc[b].pc = "push" /\ bc[b].impl = "sam"
    /\ bc[b].i < Len(bc[b].conns)
    /\ \A k \in InFlight(bc[b]) : bc[b].res[k] \in Settled
    /\ bc' = [bc EXCEPT ![b] =
                [CountResults(bc[b], InFlight(bc[b])) EXCEPT !.i = NextChunk(@)]]
    /\ UNCHANGED <<fe, transport, env, dir, items, last>>

\* The aws-sam handler answers 200 with the results object.
SamRespond(b) ==
    /\ bc[b].pc = "push" /\ bc[b].impl = "sam"
    /\ bc[b].i >= Len(bc[b].conns)
    /\ bc' = [bc EXCEPT ![b].pc = "done",
                        ![b].status = BroadcastCompleted(bc[b]),
                        ![b].total = bc[b].sent + bc[b].failed + bc[b].stale]
    /\ UNCHANGED <<fe, transport, env, dir, items, last>>

\* Promise.all has resolved: the serverless handler answers 200 with
\* connectionCount.
SlsRespond(b) ==
    /\ bc[b].pc = "push" /\ bc[b].impl = "sls"
    /\ \A k \in 1..Len(bc[b].conns) :
          bc[b].res[k] \in Settled /\ ~TaskRejected(bc[b].res[k])
    /\ bc' = [bc EXCEPT ![b].pc = "done",
                        ![b].status = BroadcastCompleted(bc[b]),
                        ![b].total = Len(bc[b].conns)]
    /\ UNCHANGED <<fe, transport, env, dir, items, last>>

\* Promise.all has rejected: the outer catch answers 500.
SlsReject(b) ==
    /\ bc[b].pc = "push" /\ bc[b].impl = "sls"
    /\ \E k \in 1..Len(bc[b].conns) : TaskRejected(bc[b].res[k])
    /\ bc' = [bc EXCEPT ![b].pc = "done", ![b].status = 500]
    /\ UNCHANGED <<fe, transport, env, dir, items, last>>

-----------------------------------------------------------------------------
(* The lifecycle handlers *)

\* The configuration test each lifecycle handler makes before its I/O.
ConfigOk(op, impl, e) ==
    IF impl = "sam" THEN validateEnvironment(e)
    ELSE IF op = "default" THEN TRUE
    ELSE tableName(e)

\* Mutant: the configuration is validated before the connection id is read.
HandlerStatus_ConfigFirst(op, impl, e, cid, ioOk) ==
    IF ~ConfigOk(op, impl, e) THEN 500
    ELSE IF cid = NoId THEN 400
    ELSE IF ~ioOk THEN 500
    ELSE 200

\* Mutant: the catch block logs the failed call and answers 200.
HandlerStatus_Swallow(op, impl, e, cid, ioOk) ==
    IF cid = NoId THEN 400
    ELSE IF ~ConfigOk(op, impl, e) THEN 500
    ELSE 200

\* The status of a lifecycle handler: 400 without a connection id, 500 on a
\* missing configuration value, 500 when its one I/O call throws.
HandlerStatus(op, impl, e, cid, ioOk) ==
    IF cid = NoId THEN 400
    ELSE IF ~ConfigOk(op, impl, e) THEN 500
    ELSE IF ~ioOk THEN 500
    ELSE 200

\* The handler reached its I/O call.
ReachesIO(op, impl, e, cid) == cid # NoId /\ ConfigOk(op, impl, e)

\* The calls a lifecycle handler issues: none, or its one call with what
\* the directory or the transport answered to it.
NoCall == <<>>
Call(name, cid, o) == <<[call |-> name, cid |-> cid, o |-> o]>>

\* The record of a lifecycle invocation: the route, the connection id of
\* its request context, event.body, the calls it issued, the statusCode of
\* its response, and in prev the statusCode of the invocation before it when
\* that was of the same route for the same connection id (0 otherwise).
Response(op, cid, body, io, st) ==
    [op |-> op, cid |-> cid, body |-> body, io |-> io, status |-> st,
     prev |-> IF last.op = op /\ last.cid = cid THEN last.status ELSE 0]

\* The instants Date.now() returns in the model, in milliseconds; the second
\* one lies a millisecond before a full second.
Instants == {0, 1999}
\* The milliseconds that pass between the two Date.now() calls of $connect.
Elapsed == {0, 1}

\* createTtl(hoursFromNow), called at the instant t.
createTtl(t, hoursFromNow) == (t \div 1000) + (hoursFromNow * 3600)
\* Math.floor(Date.now() / 1000) + 86400 of the serverless $connect.
SlsTtl(t) == (t \div 1000) + 86400

\* The item $connect puts: timestamp is Date.now() at t, and ttl is computed
\* from a second Date.now(), d milliseconds later.
Item(impl, cid, t, d) ==
    [connectionId |-> cid, timestamp |-> t,
     ttl |-> IF impl = "sam" THEN createTtl(t + d, 24) ELSE SlsTtl(t + d)]

\* $connect
Connect(impl, cid, t, d, o) ==
    /\ IF ReachesIO("connect", impl, env, cid)
       THEN LET r == PutCommand(dir, cid, o) IN
            /\ dir' = r.dir
            /\ items' = PutItem(items, Item(impl, cid, t, d), o)
            /\ last' = Response("connect", cid, NoBody, Call("put", cid, o),
                                HandlerStatus("connect", impl, env, cid, r.ok))
            /\ transport' = Upgraded(transport, cid,
                                     HandlerStatus("connect", impl, env, cid, r.ok))
       ELSE /\ last' = Response("connect", cid, NoBody, NoCall,
                                HandlerStatus("connect", impl, env, cid, TRUE))
            /\ transport' = Upgraded(transport, cid,
                                     HandlerStatus("connect", impl, env, cid, TRUE))
            /\ UNCHANGED <<dir, items>>
    /\ UNCHANGED <<fe, env, bc>>

\* $disconnect
Disconnect(impl, cid, o) ==
    /\ IF ReachesIO("disconnect", impl, env, cid)
       THEN LET r == DeleteCommand(dir, cid, o) IN
            /\ dir' = r.dir
            /\ items' = DeleteItem(items, cid, o)
            /\ bc' = Track(bc, dir \ r.dir)
            /\ last' = Response("disconnect", cid, NoBody, Call("delete", cid, o),
                                HandlerStatus("disconnect", impl, env, cid, r.ok))
       ELSE /\ last' = Response("disconnect", cid, NoBody, NoCall,
                                HandlerStatus("disconnect", impl, env, cid, TRUE))
            /\ UNCHANGED <<dir, items, bc>>
    /\ UNCHANGED <<fe, transport, env>>

\* The frames a client sends on an open connection in the model: an empty
\* frame, a frame that is not JSON, and a JSON message.
Frames == {NoBody, "{", "{\"type\":\"test\"}"}

\* JSON.parse(event.body || '{}') of the $default handlers resolves.
DefaultParses(body) == BodyMissing(body) \/ JSONParse(body).ok

\* The $default handler gets as far as its PostToConnectionCommand: the
\* parse sits inside the try block, so after a SyntaxError no push is made.
Echoes(impl, e, cid, body) ==
    ReachesIO("default", impl, e, cid) /\ DefaultParses(body)

\* $default: parse the inbound message and echo to the same connection.
\* A SyntaxError of the parse and a rejected push both end in the catch
\* block, which answers 500; the handler holds no directory client call.
Default(impl, cid, body, o) ==
    /\ last' = Response("default", cid, body,
                 IF Echoes(impl, env, cid, body) THEN Call("echo", cid, o)
                                                 ELSE NoCall,
                 HandlerStatus("default", impl, env, cid,
                               DefaultParses(body) /\ o = "delivered"))
    /\ UNCHANGED <<fe, transport, env, dir, items, bc>>

\* The table's TTL attribute: DynamoDB drops an expired record by itself.
Expire(c) ==
    /\ c \in dir
    /\ dir' = dir \ {c}
    /\ items' = items \ Records(items, c)
    /\ bc' = Track(bc, {c})
    /\ UNCHANGED <<fe, transport, env, last>>

-----------------------------------------------------------------------------
(* API Gateway: the life of a WebSocket connection *)

\* A client starts the WebSocket handshake: API Gateway hands out the
\* connection id and invokes $connect.
Handshake(c) ==
    /\ transport # Untracked
    /\ transport[c] = "none"
    /\ transport' = [transport EXCEPT ![c] = "connecting"]
    /\ UNCHANGED <<env, dir, items, bc, last, fe>>

\* The $connect integration has returned 200 to API Gateway, which completes
\* the upgrade: from now on the connection takes messages.
Established(c) ==
    /\ transport # Untracked
    /\ transport[c] = "answered"
    /\ transport' = [transport EXCEPT ![c] = "open"]
    /\ UNCHANGED <<env, dir, items, bc, last, fe>>

\* The client goes away or the connection is closed; API Gateway invokes
\* $disconnect afterwards.
Hangup(c) ==
    /\ transport # Untracked
    /\ transport[c] = "open"
    /\ transport' = [transport EXCEPT ![c] = "closed"]
    /\ UNCHANGED <<env, dir, items, bc, last, fe>>

-----------------------------------------------------------------------------
(* The frontend: AuthService and the auth store *)

\* The number of anonymous accounts Firebase creates in one run.
MaxUid == 2
\* JavaScript's null where a user is expected; the users are 1..MaxUid.
NoUser == 0

\* The browser before anything was called: nobody is signed in to Firebase,
\* there is no session cookie, the auth store holds its initial state, and no
\* call is running.  exchanged records the users whose token was exchanged
\* for a session cookie; ea is the running or last ensureAuthenticated call,
\* so the running or last signOut call with the requests it has issued.
SignedOut ==
    [ currentUser |-> NoUser, uids |-> 0, cookie |-> NoUser, exchanged |-> {},
      user |-> NoUser, isLoading |-> FALSE, error |-> FALSE,
      ea |-> [pc |-> "idle", viaStore |-> FALSE, ret |-> NoUser],
      so |-> [pc |-> "idle", trace |-> <<>>, failed |-> FALSE] ]

\* No call of the auth store or of AuthService is running.
Quiet(f) == f.ea.pc \in {"idle", "done"} /\ f.so.pc \in {"idle", "done"}

\* AuthService.ensureAuthenticated returns ret; when the auth store made the
\* call it stores the user and, in its finally block, clears isLoading.
Returned(f, ret) ==
    [f EXCEPT !.ea = [@ EXCEPT !.pc = "done", !.ret = ret],
              !.user = IF f.ea.viaStore THEN ret ELSE @,
              !.isLoading = IF f.ea.viaStore THEN FALSE ELSE @]

\* ensureAuthenticated is called, by the auth store (which first sets
\* isLoading and clears error) or directly by customFetch.  A current user
\* is returned at once; otherwise the anonymous sign-in starts.
EnsureAuthenticated(viaStore) ==
    /\ Quiet(fe)
    /\ LET f == [fe EXCEPT !.ea = [pc |-> "signIn", viaStore |-> viaStore,
                                   ret |-> NoUser],
                           !.isLoading = IF viaStore THEN TRUE ELSE @,
                           !.error = IF viaStore THEN FALSE ELSE @]
       IN  fe' = IF fe.currentUser # NoUser
                    THEN Returned(f, fe.currentUser)
                    ELSE f
    /\ UNCHANGED <<env, dir, items, bc, last, transport>>

\* signInAnonymously(auth) settles: Firebase creates an account and makes it
\* the current user, or the call rejects and ensureAuthenticated returns null.
SignInAnonymously(o) ==
    /\ fe.ea.pc = "signIn"
    /\ IF o = "ok"
       THEN /\ fe.uids < MaxUid
            /\ fe' = [fe EXCEPT !.uids = @ + 1, !.currentUser = fe.uids + 1,
                                !.ea = [@ EXCEPT !.pc = "token"]]
       ELSE fe' = Returned(fe, NoUser)
    /\ UNCHANGED <<env, dir, items, bc, last, transport>>

\* user.getIdToken() settles inside createSessionCookie.
GetIdToken(o) ==
    /\ fe.ea.pc = "token"
    /\ fe' = IF o = "ok"
                THEN [fe EXCEPT !.ea = [@ EXCEPT !.pc = "exchange"]]
                ELSE Returned(fe, NoUser)
    /\ UNCHANGED <<env, dir, items, bc, last, transport>>

\* The POST to /api/auth/anonymous settles: a 2xx response sets the session
\* cookie and the user is returned; a response that is not ok or a rejected
\* fetch throws, and the catch of ensureAuthenticated returns null.
CreateSessionCookie(o) ==
    /\ fe.ea.pc = "exchange"
    /\ fe' = IF o = "ok"
                THEN Returned([fe EXCEPT !.cookie = fe.currentUser,
                                         !.exchanged = @ \cup {fe.currentUser}],
                              fe.currentUser)
                ELSE Returned(fe, NoUser)
    /\ UNCHANGED <<env, dir, items, bc, last, transport>>

\* The auth store's signOut starts: it sets isLoading, clears error and calls
\* AuthService.signOut, which issues the POST to /api/auth/logout.
SignOut ==
    /\ Quiet(fe)
    /\ fe' = [fe EXCEPT !.isLoading = TRUE, !.error = FALSE,
                        !.so = [pc |-> "logout", trace |-> <<>>,
                                failed |-> FALSE]]
    /\ UNCHANGED <<env, dir, items, bc, last, transport>>

\* Where AuthService.signOut goes on after the logout fetch settled with o.
AfterLogoutFetch_StopOnFailure(o) == IF o = "ok" THEN "firebase" ELSE "done"
\* The fetch is inside a try whose catch only logs, and the response is not
\* looked at: whatever the outcome, signOut(auth) is next.
AfterLogoutFetch(o) == "firebase"

\* The POST to /api/auth/logout settles: a 2xx response clears the session
\* cookie; a response that is not ok and a rejected fetch leave it.
LogoutFetch(o) ==
    /\ fe.so.pc = "logout"
    /\ fe' = [fe EXCEPT
                !.cookie = IF o = "ok" THEN NoUser ELSE @,
                !.so = [@ EXCEPT
                          !.pc = AfterLogoutFetch(o),
                          !.trace = Append(@, [call |-> "logout", o |-> o])],
                !.isLoading = IF AfterLogoutFetch(o) = "done" THEN FALSE ELSE @]
    /\ UNCHANGED <<env, dir, items, bc, last, transport>>

\* signOut(auth) of Firebase settles.  When it resolves, the store sets user
\* to null; when it rejects, AuthService.signOut throws and the store sets
\* error.  The finally block clears isLoading either way.
FirebaseSignOut(o) ==
    /\ fe.so.pc = "firebase"
    /\ fe' = [fe EXCEPT
                !.currentUser = IF o = "ok" THEN NoUser ELSE @,
                !.user = IF o = "ok" THEN NoUser ELSE @,
                !.error = (o # "ok"),
                !.isLoading = FALSE,
                !.so = [@ EXCEPT
                          !.pc = "done",
                          !.failed = (o # "ok"),
                          !.trace = Append(@, [call |-> "firebase", o |-> o])]]
    /\ UNCHANGED <<env, dir, items, bc, last, transport>>

-----------------------------------------------------------------------------
(* Specifications *)

AllSet == [table |-> TRUE, endpoint |-> TRUE]
NoResponse ==
    [op |-> "none", cid |-> NoId, body |-> NoBody, io |-> NoCall,
     status |-> 0, prev |-> 0]
\* The bodies that pass the validation of the aws-sam handler.
ValidBodies == {body \in Bodies : SamValidate(AllSet, body) = 0}

\* The first of the instants at which the handlers run.
Epoch == 0
\* The records of a directory that aws-sam Connects at Epoch have filled.
Filled(d) == {Item("sam", c, Epoch, 0) : c \in d}
\* The request of the broadcasts that run next to the lifecycle handlers.
Request == "{\"type\":\"test\",\"data\":{\"x\":1}}"

\* The broadcast invocation that runs in the specifications.
Solo == "b1"

\* The I/O steps of broadcast invocation b after it was invoked.
BroadcastIO(b) ==
    \/ \E o \in StoreOutcomes : Scan(b, o)
    \/ \E k \in 1..MaxConn, o \in PushOutcomes : Push(b, k, o)
    \/ \E k \in 1..MaxConn, o \in StoreOutcomes : Reap(b, k, o)

\* The steps of an aws-sam broadcast invocation.
SamBroadcast(b) == BroadcastIO(b) \/ ChunkSettled(b) \/ SamRespond(b)

\* The steps of a broadcast invocation of either implementation.
Broadcast(b) == SamBroadcast(b) \/ SlsRespond(b) \/ SlsReject(b)

\* Spec: the broadcast endpoint, either implementation, on every request
\* body, over a directory that earlier Connects have filled and from which
\* records disappear while it runs (TTL expiry; a Disconnect has the same
\* effect on the table).  No Connect runs during a broadcast.
Init ==
    /\ env = AllSet
    /\ dir \in SUBSET ConnIds
    /\ items = Filled(dir)
    /\ bc = [b \in Procs |-> Idle]
    /\ last = NoResponse
    /\ transport = Untracked
    /\ fe = SignedOut

Next ==
    \/ \E impl \in Impls, body \in Bodies : Invoke(Solo, impl, body)
    \/ Broadcast(Solo)
    \/ \E c \in ConnIds : Expire(c)

Spec == Init /\ [][Next]_vars

\* SpecLifecycle: the lifecycle handlers alone, on every input: with and
\* without a connection id, with every configuration, with the directory
\* and the transport answering or failing.
InitLifecycle ==
    /\ env \in [table : BOOLEAN, endpoint : BOOLEAN]
    /\ dir = {}
    /\ items = {}
    /\ bc = [b \in Procs |-> Idle]
    /\ last = NoResponse
    /\ transport = Untracked
    /\ fe = SignedOut

NextLifecycle ==
    \/ \E impl \in Impls, cid \in ConnIds \cup {NoId}, o \in StoreOutcomes :
          Connect(impl, cid, Epoch, 0, o)
    \/ \E impl \in Impls, cid \in ConnIds \cup {NoId}, o \in StoreOutcomes :
          Disconnect(impl, cid, o)
    \/ \E impl \in Impls, cid \in ConnIds \cup {NoId}, body \in Frames,
          o \in PushOutcomes : Default(impl, cid, body, o)
    \/ \E c \in ConnIds : Expire(c)

SpecLifecycle == InitLifecycle /\ [][NextLifecycle]_vars

\* SpecSystem: the aws-sam handlers together.  Connections connect and
\* disconnect and records expire while a broadcast of a valid request scans
\* and pushes.
InitSystem ==
    /\ env = AllSet
    /\ dir = {}
    /\ items = {}
    /\ bc = [b \in Procs |-> Idle]
    /\ last = NoResponse
    /\ transport = Untracked
    /\ fe = SignedOut

NextSystem ==
    \/ Invoke(Solo, "sam", Request)
    \/ SamBroadcast(Solo)
    \/ \E cid \in ConnIds : Connect("sam", cid, Epoch, 0, "ok")
    \/ \E cid \in ConnIds : Disconnect("sam", cid, "ok")
    \/ \E c \in ConnIds : Expire(c)

SpecSystem == InitSystem /\ [][NextSystem]_vars

\* SpecAll: all four aws-sam handlers together over a directory that
\* answers: connections connect, disconnect and send frames whose echo the
\* transport rejects with 410, and records expire, while a broadcast scans,
\* pushes with every outcome and reaps.
SamBroadcastStored(b) ==
    \/ Scan(b, "ok")
    \/ \E k \in 1..MaxConn, o \in PushOutcomes : Push(b, k, o)
    \/ \E k \in 1..MaxConn : Reap(b, k, "ok")
    \/ ChunkSettled(b)
    \/ SamRespond(b)

NextAll ==
    \/ Invoke(Solo, "sam", Request)
    \/ SamBroadcastStored(Solo)
    \/ \E cid \in ConnIds : Connect("sam", cid, Epoch, 0, "ok")
    \/ \E cid \in ConnIds : Disconnect("sam", cid, "ok")
    \/ \E cid \in ConnIds : Default("sam", cid, NoBody, "gone")
    \/ \E c \in ConnIds : Expire(c)

SpecAll == InitSystem /\ [][NextAll]_vars

\* SpecRecords: the directory's records under Connects of both
\* implementations at different instants, with the directory answering or
\* failing, and with Disconnects and TTL expiry in between.
NextRecords ==
    \/ \E impl \in Impls, cid \in ConnIds, t \in Instants, d \in Elapsed,
          o \in StoreOutcomes : Connect(impl, cid, t, d, o)
    \/ \E impl \in Impls, cid \in ConnIds : Disconnect(impl, cid, "ok")
    \/ \E c \in ConnIds : Expire(c)

SpecRecords == InitSystem /\ [][NextRecords]_vars

\* SpecConfig: all four handlers of both implementations in a deployment in
\* which a configuration value is missing, over a filled directory, with
\* the directory and the transport answering.
Configs == [table : BOOLEAN, endpoint : BOOLEAN]

\* The steps of a serverless broadcast invocation.
SlsBroadcast(b) == BroadcastIO(b) \/ SlsRespond(b) \/ SlsReject(b)

InitConfig ==
    /\ env \in Configs \ {AllSet}
    /\ dir \in SUBSET ConnIds
    /\ items = Filled(dir)
    /\ bc = [b \in Procs |-> Idle]
    /\ last = NoResponse
    /\ transport = Untracked
    /\ fe = SignedOut

NextConfig ==
    \/ \E impl \in Impls : Invoke(Solo, impl, Request)
    \/ SlsBroadcast(Solo)
    \/ \E impl \in Impls, cid \in ConnIds : Connect(impl, cid, Epoch, 0, "ok")
    \/ \E impl \in Impls, cid \in ConnIds : Disconnect(impl, cid, "ok")
    \/ \E impl \in Impls, cid \in ConnIds :
          Default(impl, cid, NoBody, "delivered")

SpecConfig == InitConfig /\ [][NextConfig]_vars

\* The browser alone: calls of ensureAuthenticated and of signOut, one after
\* the other, with every outcome of the requests they issue.
FetchOutcomes == {"ok", "http_error", "network"}
InitAuth ==
    /\ env = AllSet
    /\ dir = {}
    /\ items = {}
    /\ bc = [b \in Procs |-> Idle]
    /\ last = NoResponse
    /\ transport = Untracked
    /\ fe = SignedOut

NextAuth ==
    \/ \E viaStore \in BOOLEAN : EnsureAuthenticated(viaStore)
    \/ \E o \in {"ok", "error"} : SignInAnonymously(o)
    \/ \E o \in {"ok", "error"} : GetIdToken(o)
    \/ \E o \in FetchOutcomes : CreateSessionCookie(o)
    \/ SignOut
    \/ \E o \in FetchOutcomes : LogoutFetch(o)
    \/ \E o \in {"ok", "error"} : FirebaseSignOut(o)

SpecAuth == InitAuth /\ [][NextAuth]_vars

\* The aws-sam handlers behind API Gateway, with the state of every
\* connection: clients connect while the broadcast endpoint is invoked.  The
\* directory takes every call.
InitRace ==
    /\ env = AllSet
    /\ dir = {}
    /\ items = {}
    /\ bc = [b \in Procs |-> Idle]
    /\ last = NoResponse
    /\ transport = [c \in ConnIds |-> "none"]
    /\ fe = SignedOut

NextRace ==
    \/ \E c \in ConnIds : Handshake(c)
    \/ \E c \in ConnIds :
          transport[c] = "connecting" /\ Connect("sam", c, Epoch, 0, "ok")
    \/ \E c \in ConnIds : Established(c)
    \/ Invoke(Solo, "sam", Request)
    \/ SamBroadcastStored(Solo)

SpecRace == InitRace /\ [][NextRace]_vars

\* The ids invocation r has enumerated and not pushed to yet.
Unpushed(r) ==
    IF r.pc = "push"
    THEN {r.conns[k] : k \in {j \in 1..Len(r.conns) : r.att[j] = 0}}
    ELSE {}

\* The connections of d are open, the other ids were never handed out.
Opened(d) == [c \in ConnIds |-> IF c \in d THEN "open" ELSE "none"]

\* The aws-sam handlers behind API Gateway, with connections that close and
\* disconnect between the enumeration of a broadcast and its push to them.
InitDisconnect ==
    /\ env = AllSet
    /\ dir \in SUBSET ConnIds
    /\ items = Filled(dir)
    /\ bc = [b \in Procs |-> Idle]
    /\ last = NoResponse
    /\ transport = Opened(dir)
    /\ fe = SignedOut

NextDisconnect ==
    \/ \E c \in ConnIds : Hangup(c)
    \/ \E c \in ConnIds :
          /\ transport[c] = "closed"
          /\ c \in Unpushed(bc[Solo])
          /\ Disconnect("sam", c, "ok")
    \/ Invoke(Solo, "sam", Request)
    \/ SamBroadcast(Solo)

SpecDisconnect == InitDisconnect /\ [][NextDisconnect]_vars

\* The steps of one aws-sam broadcast behind API Gateway when the transport
\* answers every push to a closed connection with 410 and the scan is
\* answered; the delete of a stale record succeeds or fails.
SamBroadcastGone(b) ==
    \/ Scan(b, "ok")
    \/ \E k \in 1..MaxConn, o \in PushOutcomes :
          /\ k <= Len(bc[b].conns)
          /\ transport[bc[b].conns[k]] = "closed" => o = "gone"
          /\ Push(b, k, o)
    \/ \E k \in 1..MaxConn, o \in StoreOutcomes : Reap(b, k, o)
    \/ ChunkSettled(b)
    \/ SamRespond(b)

\* The client that connects while the broadcast endpoint is invoked.
Newcomer == MaxConn

\* The other connections are open and recorded in the directory.
InitReap ==
    /\ env = AllSet
    /\ dir = ConnIds \ {Newcomer}
    /\ items = Filled(dir)
    /\ bc = [b \in Procs |-> Idle]
    /\ last = NoResponse
    /\ transport = Opened(dir)
    /\ fe = SignedOut

\* A client connects and clients go away without a clean disconnect while
\* the broadcast endpoint is invoked again and again.
NextReap ==
    \/ Handshake(Newcomer)
    \/ \E c \in ConnIds :
          transport[c] = "connecting" /\ Connect("sam", c, Epoch, 0, "ok")
    \/ \E c \in ConnIds : Established(c)
    \/ \E c \in ConnIds : Hangup(c)
    \/ Invoke(Solo, "sam", Request)
    \/ SamBroadcastGone(Solo)

\* Lambda runs every invocation to its end and the endpoint keeps being
\* invoked (weak fairness of the broadcast's steps); the directory does not
\* fail every delete for ever (strong fairness of the delete that succeeds).
SpecReap ==
    /\ InitReap
    /\ [][NextReap]_vars
    /\ WF_vars(Invoke(Solo, "sam", Request) \/ SamBroadcastGone(Solo))
    /\ SF_vars(\E k \in 1..MaxConn : Reap(Solo, k, "ok"))

\* Both broadcast handlers, invoked again and again, with clients that
\* connect while an invocation scans; every call to the directory and to the
\* transport settles with one of its outcomes.
NextSettles ==
    \/ \E impl \in Impls : Invoke(Solo, impl, Request)
    \/ Broadcast(Solo)
    \/ \E cid \in ConnIds :
          bc[Solo].pc = "scan" /\ Connect("sam", cid, Epoch, 0, "ok")

\* Every call an invocation has issued settles and Lambda runs the
\* invocation's continuation: weak fairness of the broadcast's steps.
SpecSettles == Init /\ [][NextSettles]_vars /\ WF_vars(Broadcast(Solo))

\* Two invocations of the aws-sam broadcast handler run concurrently over a
\* directory whose connections are open or have gone away without a
\* disconnect, each invoked once.  The directory takes every call.
InitPair ==
    /\ env = AllSet
    /\ dir \in SUBSET ConnIds
    /\ items = Filled(dir)
    /\ bc = [b \in Pair |-> Idle]
    /\ last = NoResponse
    /\ transport \in [ConnIds -> {"none", "open", "closed"}]
    /\ \A c \in ConnIds : transport[c] = "none" <=> c \notin dir
    /\ fe = SignedOut

NextPair ==
    \/ \E b \in Pair : bc[b].pc = "idle" /\ Invoke(b, "sam", Request)
    \/ \E b \in Pair : SamBroadcastStored(b)

SpecPair == InitPair /\ [][NextPair]_vars

\* Both broadcast handlers on a directory that fits in one page of the scan,
\* whatever the number of its records.
NextOnePage ==
    \/ \E impl \in Impls : Invoke(Solo, impl, Request)
    \/ \E o \in StoreOutcomes : ScanTable(Solo, o, MaxConn)
    \/ \E k \in 1..MaxConn, o \in PushOutcomes : Push(Solo, k, o)
    \/ \E k \in 1..MaxConn, o \in StoreOutcomes : Reap(Solo, k, o)
    \/ ChunkSettled(Solo)
    \/ SamRespond(Solo)
    \/ SlsRespond(Solo)
    \/ SlsReject(Solo)

SpecOnePage == Init /\ [][NextOnePage]_vars

-----------------------------------------------------------------------------
(* Properties *)

Range(q) == {q[k] : k \in 1..Len(q)}
\* The positions of r's enumerated list whose push the transport answered o.
Answered(r, o) == {k \in 1..Len(r.out) : r.out[k] = o}
\* r has answered 200.
Completed(r) == r.pc = "done" /\ r.status = 200
\* r has answered after it started to push.
Pushed(r) == r.pc = "done" /\ r.att # <<>>
\* The body is JSON for an object that carries both type and data.
CarriesBoth(body) ==
    /\ JSONParse(body).ok
    /\ JSONParse(body).val.kind = "object"
    /\ {"type", "data"} \subseteq DOMAIN JSONParse(body).val.fields
\* The body is JSON for an object that lacks type or lacks data.
LacksField(body) ==
    /\ JSONParse(body).ok
    /\ JSONParse(body).val.kind = "object"
    /\ ~CarriesBoth(body)

\* C1 (as claimed): after a broadcast has answered 200, no connection whose
\* push the transport rejected with 410 has a record in the directory, and
\* the stale counter of the aws-sam handler counts every such connection.
\* (No Connect runs in Spec, which is the proviso of the claim.)
C1_GoneIsReaped ==
    \A b \in Procs :
        Completed(bc[b]) =>
            /\ \A k \in Answered(bc[b], "gone") : bc[b].conns[k] \notin dir
            /\ bc[b].impl = "sam" =>
                  bc[b].stale >= Cardinality(Answered(bc[b], "gone"))

\* C2: a step of a broadcast removes a key from the directory only when the
\* transport answered 410 to the push that this invocation made to that very
\* connection; the records of connections whose push was delivered or failed
\* otherwise are left to Disconnect and TTL expiry.
C2_ReapsOnlyGone ==
    [][\A b \in Procs :
          (Broadcast(b) \/ \E impl \in Impls, body \in Bodies : Invoke(b, impl, body))
          => \A c \in dir \ dir' :
                \E k \in Answered(bc[b], "gone") :
                    bc[b].conns[k] = c /\ bc[b].att[k] = 1]_vars

\* A broadcast has finished with a delivered and a transient push, both
\* records still there, and a 410 push whose record is gone.
C2_Witness ==
    \E b \in Procs :
        /\ Completed(bc[b])
        /\ \E k \in Answered(bc[b], "delivered") : bc[b].conns[k] \in dir
        /\ \E k \in Answered(bc[b], "transient") : bc[b].conns[k] \in dir
        /\ \E k \in Answered(bc[b], "gone") : bc[b].conns[k] \notin dir

\* C3 (as claimed): the counters of a finished aws-sam broadcast classify
\* the connections by push outcome: sent counts the delivered pushes, failed
\* the transient ones and stale the 410 ones; for {c1,c2,c3} answered
\* delivered, 410, transient the result is 1/1/1 of 3 and c2 is gone.
C3_CountersClassify ==
    \A b \in Procs :
        Completed(bc[b]) /\ bc[b].impl = "sam" =>
            /\ bc[b].sent = Cardinality(Answered(bc[b], "delivered"))
            /\ bc[b].failed = Cardinality(Answered(bc[b], "transient"))
            /\ bc[b].stale = Cardinality(Answered(bc[b], "gone"))
            /\ bc[b].conns = <<1, 2, 3>>
                 /\ bc[b].out = <<"delivered", "gone", "transient">>
               => /\ bc[b].sent = 1 /\ bc[b].failed = 1 /\ bc[b].stale = 1
                  /\ bc[b].total = 3
                  /\ dir \subseteq {1, 3}

\* C4: a broadcast that has answered 200 has issued exactly one push for
\* every position of its enumerated list, and the counters of the aws-sam
\* handler add up to the length of that list, which is totalConnections
\* (connectionCount in the serverless handler).
C4_OneAttemptEach ==
    \A b \in Procs :
        /\ \A k \in 1..Len(bc[b].att) : bc[b].att[k] <= 1
        /\ Completed(bc[b]) =>
              /\ \A k \in 1..Len(bc[b].conns) : bc[b].att[k] = 1
              /\ bc[b].total = Len(bc[b].conns)
              /\ bc[b].impl = "sam" =>
                    bc[b].sent + bc[b].failed + bc[b].stale = Len(bc[b].conns)

\* An aws-sam broadcast over more than one chunk has finished, and every
\* push of its first chunk failed.
C4_Witness ==
    \E b \in Procs :
        /\ Completed(bc[b]) /\ bc[b].impl = "sam"
        /\ Len(bc[b].conns) > chunkSize
        /\ \A k \in 1..chunkSize : bc[b].out[k] # "delivered"

\* C5 (as claimed): a request whose body lacks type or data gets a 400
\* response, and no scan, no push and no delete is made for it.
C5_ValidationGate ==
    \A b \in Procs :
        bc[b].pc # "idle" /\ LacksField(bc[b].body) =>
            /\ bc[b].pc = "done" => bc[b].status = 400
            /\ bc[b].scans = 0 /\ bc[b].att = <<>>

\* C6: an aws-sam broadcast enumerates every connection id that was in the
\* directory when it was invoked (put there by a Connect that answered 200)
\* and was not removed before the scan ended, and when it answers 200 it
\* has pushed to every id it enumerated.
C6_ConnectedIsEnumerated ==
    [][\A b \in Procs :
          /\ bc[b].pc = "scan" /\ bc'[b].pc = "push"
                => bc[b].held \subseteq Range(bc'[b].conns)
          /\ bc[b].pc = "push" /\ Completed(bc'[b])
                => \A k \in 1..Len(bc[b].conns) : bc[b].att[k] >= 1]_vars

\* After a Connect that answered 200 a broadcast has enumerated a directory
\* of more than one page and has pushed to every connection.
C6_Witness ==
    \E b \in Procs :
        /\ Completed(bc[b]) /\ bc[b].scans > 1
        /\ Len(bc[b].conns) > PageSize
        /\ \A k \in 1..Len(bc[b].conns) : bc[b].att[k] = 1

\* C7: a Disconnect for a connection id that reaches a directory that
\* answers is answered 200 and leaves no record for the id, whether or not
\* there was one and whatever was invoked before; so it is for the second
\* of two Disconnects in a row.
C7_DisconnectIdempotent ==
    [][\A impl \in Impls, c \in ConnIds :
          Disconnect(impl, c, "ok") /\ ConfigOk("disconnect", impl, env)
          => /\ last'.status = 200 /\ c \notin dir'
             /\ last.op = "disconnect" /\ last.cid = c /\ last.status = 200
                   => last'.prev = 200]_vars

\* Two Disconnects in a row for the same id were both answered 200.
C7_Witness ==
    /\ last.op = "disconnect" /\ last.cid \in ConnIds
    /\ last.prev = 200 /\ last.status = 200
    /\ last.cid \notin dir

\* C8 (as claimed): a broadcast that has started to push answers 200 and
\* has pushed once to every enumerated connection, whatever the pushes and
\* the deletes of stale connections came to.
C8_FailuresContained ==
    \A b \in Procs :
        Pushed(bc[b]) =>
            /\ bc[b].status = 200
            /\ \A k \in 1..Len(bc[b].conns) : bc[b].att[k] = 1

\* C8 (amended): the same for every combination of push outcomes; a delete
\* of a stale connection that fails is contained by the aws-sam
\* BroadcastService only, the serverless broadcastToAll answers it with 500.
C8_PushFailuresContained ==
    \A b \in Procs :
        Pushed(bc[b]) =>
            IF bc[b].impl = "sls" /\ \E k \in 1..Len(bc[b].res) : bc[b].res[k] = "reapFailed"
            THEN bc[b].status = 500
            ELSE /\ bc[b].status = 200
                 /\ \A k \in 1..Len(bc[b].conns) : bc[b].att[k] = 1

\* An aws-sam broadcast over two chunks has answered 200 after a first
\* chunk of one transient push and one 410 whose delete failed.
C8_Witness ==
    \E b \in Procs :
        /\ Completed(bc[b]) /\ bc[b].impl = "sam"
        /\ Len(bc[b].conns) > chunkSize
        /\ bc[b].res[1] = "transient" /\ bc[b].res[2] = "reapFailed"

\* C9 (as claimed): a broadcast in which a directory call has thrown, the
\* scan or the delete of a stale connection, answers 500.
C9_StorageFailureSurfaces ==
    \A b \in Procs :
        bc[b].pc = "done" /\ bc[b].storeFailed => bc[b].status = 500

\* C10 (as claimed): with the configuration set, a request whose body is
\* absent, is not JSON, or is JSON that does not carry both type and data
\* is answered 400.
C10_BadRequestIs400 ==
    \A b \in Procs :
        bc[b].pc # "idle" /\ ~CarriesBoth(bc[b].body) =>
            bc[b].pc = "done" /\ bc[b].status = 400

\* C11 (as claimed): a $default invocation with a connection id whose body
\* is not JSON is handled as if the body were {}: the echo envelope is pushed
\* to the connection, and when the transport takes it the answer is 200.
C11_MalformedTolerated ==
    [][\A impl \in Impls :
          /\ last'.cid \in ConnIds
          /\ ~DefaultParses(last'.body)
          /\ ConfigOk("default", impl, env)
          /\ Default(impl, last'.cid, last'.body, "delivered")
          => /\ last'.io = Call("echo", last'.cid, "delivered")
             /\ last'.status = 200]_vars

\* C12: Connect, Disconnect and Default invoked without a connection id
\* answer 400, issue no directory call and no push, and leave the directory
\* as it was, under every configuration.
C12_NoIdIs400 ==
    [][\A impl \in Impls :
          \/ \E o \in StoreOutcomes : Connect(impl, NoId, Epoch, 0, o)
          \/ \E o \in StoreOutcomes : Disconnect(impl, NoId, o)
          \/ \E o \in PushOutcomes : Default(impl, NoId, last'.body, o)
          => /\ last'.status = 400
             /\ last'.io = NoCall
             /\ dir' = dir]_vars

\* A Connect without a connection id was answered 400 in a deployment in
\* which both configuration values are missing, and after it a Default.
C12_Witness ==
    /\ last.cid = NoId /\ last.status = 400 /\ last.io = NoCall
    /\ last.op = "default"
    /\ ~env.table /\ ~env.endpoint

\* C14 (as claimed): in a deployment in which the table name or the
\* management endpoint is missing, every invocation of Connect, Disconnect,
\* Default (with a connection id) and Broadcast answers 500 and has issued
\* no directory call and no push.
C14_ConfigFailsFast ==
    /\ last.op # "none" => last.status = 500 /\ last.io = NoCall
    /\ \A b \in Procs :
          bc[b].pc # "idle" =>
              /\ bc[b].pc = "done" /\ bc[b].status = 500
              /\ bc[b].scans = 0 /\ bc[b].att = <<>>

\* C15: a Default whose echo push the transport rejects, with 410 or with
\* anything else, answers 500; and no Default, whatever its outcome,
\* changes the directory.
C15_EchoFailureLeavesDirectory ==
    [][\A impl \in Impls, o \in PushOutcomes :
          Default(impl, last'.cid, last'.body, o)
          => /\ dir' = dir
             /\ Echoes(impl, env, last'.cid, last'.body) /\ o # "delivered"
                   => /\ last'.status = 500
                      /\ last'.io = Call("echo", last'.cid, o)]_vars

\* The echo to a connection with a directory record was rejected with 410
\* and answered 500, and the record is still there.
C15_Witness ==
    /\ last.op = "default" /\ last.status = 500
    /\ last.io = Call("echo", last.cid, "gone")
    /\ last.cid \in dir

\* The positions of r's enumerated list to which a push was issued.
Posted(r) == {k \in 1..Len(r.att) : r.att[k] = 1}

\* C13: a broadcast whose scan found no connection answers 200 with sent,
\* failed, staleRemoved and totalConnections (connectionCount) all 0, and
\* has no position to push to and none to reap.
C13_EmptyDirectorySucceeds ==
    \A b \in Procs :
        /\ bc[b].pc \in {"push", "done"}
        /\ bc[b].scans > 0 /\ ~bc[b].storeFailed
        /\ bc[b].conns = <<>>
        => /\ bc[b].att = <<>> /\ bc[b].res = <<>> /\ bc[b].posted = <<>>
           /\ bc[b].pc = "done" =>
                 /\ bc[b].status = 200
                 /\ bc[b].sent = 0 /\ bc[b].failed = 0 /\ bc[b].stale = 0
                 /\ bc[b].total = 0

\* An aws-sam broadcast over the empty directory has answered 200.
C13_Witness ==
    \E b \in Procs :
        /\ Completed(bc[b]) /\ bc[b].impl = "sam"
        /\ bc[b].scans = 1 /\ bc[b].conns = <<>>
        /\ dir = {}

\* C16 (as claimed): a request that carries both type and data is never
\* answered 400, whatever JSON value data is, and every push made for it
\* carries that value as the envelope's data.
C16_DataPassesThrough ==
    \A b \in Procs :
        bc[b].pc # "idle" /\ CarriesBoth(bc[b].body) =>
            /\ ~(bc[b].pc = "done" /\ bc[b].status = 400)
            /\ \A k \in Posted(bc[b]) :
                  /\ "data" \in DOMAIN bc[b].posted[k]
                  /\ bc[b].posted[k].data = Prop(JSONParse(bc[b].body).val, "data")

\* C17: all pushes of one broadcast invocation carry the same Data, which
\* is the serialised envelope the invocation built once.
C17_SameEnvelope ==
    \A b \in Procs :
        \A j, k \in Posted(bc[b]) :
            /\ bc[b].posted[j] = bc[b].posted[k]
            /\ bc[b].posted[k] = JSONStringify(bc[b].message)

\* A broadcast has pushed to connections of two chunks, the first push
\* delivered and the last not, and both carried the envelope's data.
C17_Witness ==
    \E b \in Procs :
        /\ Completed(bc[b]) /\ Len(bc[b].conns) > chunkSize
        /\ Posted(bc[b]) = 1..Len(bc[b].conns)
        /\ bc[b].out[1] = "delivered" /\ bc[b].out[Len(bc[b].conns)] = "gone"
        /\ bc[b].posted[1].data = DataX1

\* C18 (as claimed): the envelope of every push carries an id, and it is the
\* id of the request when the request has one.
C18_EnvelopeHasId ==
    \A b \in Procs :
        \A k \in Posted(bc[b]) :
            /\ "id" \in DOMAIN bc[b].posted[k]
            /\ Prop(JSONParse(bc[b].body).val, "id") # Undefined
                  => bc[b].posted[k].id = Prop(JSONParse(bc[b].body).val, "id")

\* 24 hours in milliseconds, and the resolution of the ttl attribute (epoch
\* seconds) in milliseconds.
DayMs == 24 * 3600 * 1000
SecondMs == 1000
\* The connection ids of the table's records.
Keys(its) == {r.connectionId : r \in its}

\* C19: no connection id has more than one record; a Connect(cid) that the
\* directory takes is answered 200 and leaves exactly one record for cid, the
\* one it has put (so a second Connect overwrites the first), whose ttl is 24
\* hours after its timestamp at the one-second resolution of the attribute.
C19_ConnectPutsOneRecord ==
    [][/\ \A c \in ConnIds : Cardinality(Records(items', c)) <= 1
       /\ Keys(items') = dir'
       /\ \A impl \in Impls, t \in Instants, d \in Elapsed :
             last'.cid \in ConnIds /\ Connect(impl, last'.cid, t, d, "ok")
             => /\ last'.status = 200
                /\ Records(items', last'.cid) = {Item(impl, last'.cid, t, d)}
                /\ \A r \in Records(items', last'.cid) :
                      /\ r.timestamp = t
                      /\ r.ttl * SecondMs - (r.timestamp + DayMs) < SecondMs
                      /\ (r.timestamp + DayMs) - r.ttl * SecondMs < SecondMs]_vars

\* Two Connects in a row for one id were both answered 200; the directory
\* holds one record for it, put a millisecond before a full second.
C19_Witness ==
    /\ last.op = "connect" /\ last.cid \in ConnIds
    /\ last.prev = 200 /\ last.status = 200
    /\ Cardinality(Records(items, last.cid)) = 1
    /\ \E r \in Records(items, last.cid) : r.timestamp = 1999 /\ r.ttl = 86402
    /\ Cardinality(items) > 1

\* C20: in every step of the handlers running together, a key that enters
\* the directory is the connection id of a Connect that the directory took,
\* and a key that leaves it is the connection id of a Disconnect, or was
\* reaped by a broadcast whose push to it the transport answered 410, or
\* expired; so Broadcast and Default insert nothing, Default removes
\* nothing, and a Disconnect removes no key but its own.
C20_OnlyLifecycleChangesDirectory ==
    [][/\ \A c \in dir' \ dir : Connect("sam", c, Epoch, 0, "ok")
       /\ \A c \in dir \ dir' :
             \/ Disconnect("sam", c, "ok")
             \/ Expire(c)
             \/ \E b \in Procs : \E k \in 1..Len(bc[b].conns) :
                   /\ bc[b].conns[k] = c /\ bc[b].out[k] = "gone"
                   /\ Reap(b, k, "ok")
       /\ last'.op = "disconnect" /\ Disconnect("sam", last'.cid, "ok")
             => dir' = dir \ {last'.cid}]_vars

\* A Default was answered for a connected id while a broadcast, after a
\* reap, is still pushing, and another connection has its record.
C20_Witness ==
    /\ last.op = "default" /\ last.cid \in dir
    /\ \E b \in Procs :
          /\ bc[b].pc = "push"
          /\ \E k \in 1..Len(bc[b].res) :
                bc[b].res[k] = "reaped" /\ bc[b].conns[k] \notin dir
    /\ Cardinality(dir) > 1

\* C21: in every logout the request that clears the session cookie is issued
\* before the Firebase sign-out, the Firebase sign-out is performed whatever
\* the outcome of that request, and at the step that completes signOut
\* without error the auth store holds user null and isLoading false.
C21_LogoutOrder ==
    /\ [](/\ fe.so.pc = "logout" => fe.so.trace = <<>>
          /\ fe.so.pc = "firebase" =>
                /\ Len(fe.so.trace) = 1
                /\ fe.so.trace[1].call = "logout"
          /\ fe.so.pc = "done" =>
                /\ Len(fe.so.trace) = 2
                /\ fe.so.trace[1].call = "logout"
                /\ fe.so.trace[2].call = "firebase")
    /\ [][fe.so.pc # "done" /\ fe'.so.pc = "done" /\ ~fe'.so.failed =>
            /\ fe'.user = NoUser
            /\ ~fe'.isLoading
            /\ fe'.currentUser = NoUser]_vars

\* A signed-in user logged out, the cookie-clearing request failed, and the
\* Firebase sign-out was still performed and succeeded.
C21_Witness ==
    /\ fe.so.pc = "done"
    /\ ~fe.so.failed
    /\ fe.uids > 0
    /\ Len(fe.so.trace) = 2
    /\ fe.so.trace[1].o = "network"
    /\ fe.so.trace[2] = [call |-> "firebase", o |-> "ok"]
    /\ fe.user = NoUser
    /\ ~fe.isLoading

\* C22: a call of ensureAuthenticated that returns a user returns one whose
\* token was exchanged for a session cookie, in this call or an earlier one.
C22_ReturnedUserHasSession ==
    fe.ea.pc = "done" /\ fe.ea.ret # NoUser => fe.ea.ret \in fe.exchanged

\* The pushes of r that are issued and not settled.
PushesInFlight(r) ==
    IF TasksRun(r) THEN {k \in InFlight(r) : r.res[k] = "pending"} ELSE {}

\* C23: within one broadcast the number of pushes in flight never exceeds
\* the chunk size.
\* the chunk size, and no push of a chunk is issued before every push of the
\* chunks before it has settled.
C23_InFlightAtMostChunk ==
    \A b \in Procs :
        /\ Cardinality(PushesInFlight(bc[b])) <= chunkSize
        /\ \A j, k \in 1..Len(bc[b].att) :
              /\ bc[b].att[k] > 0
              /\ (j - 1) \div chunkSize < (k - 1) \div chunkSize
              => bc[b].res[j] # "pending"

\* C24: the enumeration a broadcast pushes to holds every id that was in the
\* directory during the whole scan, holds no id twice, and is the directory
\* when the scan was a single call.
C24_EnumerationCoversDirectory ==
    [][\A b \in Procs :
          bc[b].pc = "scan" /\ bc'[b].pc = "push" =>
             /\ bc[b].held \subseteq Range(bc'[b].conns)
             /\ Cardinality(Range(bc'[b].conns)) = Len(bc'[b].conns)
             /\ bc'[b].scans = 1 => Range(bc'[b].conns) = dir]_vars

\* C25: a connection that is open at the transport, and has not disconnected
\* or expired, has its record in the directory: no broadcast deletes it.
C25_OpenKeepsRecord ==
    transport # Untracked =>
        \A c \in ConnIds : transport[c] = "open" => c \in dir

C27_StaleEventuallyReaped ==
    /\ \A c \in ConnIds :
          (transport[c] = "closed" /\ c \in dir) ~> (c \notin dir)
    /\ [][\A c \in ConnIds :
            c \notin dir /\ c \in dir' =>
               /\ last' # last
               /\ last'.op = "connect" /\ last'.cid = c
               /\ last'.status = 200]_vars

\* A broadcast has removed the record of a connection that went away
\* without a disconnect.
C27_Witness ==
    \E b \in Procs : \E k \in 1..Len(bc[b].res) :
        /\ bc[b].res[k] = "reaped"
        /\ transport[bc[b].conns[k]] = "closed"
        /\ bc[b].conns[k] \notin dir

\* C28: every broadcast invocation that has passed validation eventually
\* returns, whatever the outcomes of its scans, pushes and deletes.
C28_BroadcastReturns ==
    \A b \in Procs : bc[b].pc \in {"scan", "push"} ~> bc[b].pc = "done"

\* A broadcast has returned 200 after it scanned two pages and went through
\* two chunks, with one connection that could not be reached.
C28_Witness ==
    \E b \in Procs :
        /\ bc[b].pc = "done" /\ bc[b].status = 200
        /\ bc[b].impl = "sam"
        /\ bc[b].scans > 1
        /\ Len(bc[b].conns) > chunkSize
        /\ \E k \in 1..Len(bc[b].conns) : bc[b].out[k] = "transient"

\* The positions at which invocation r enumerated c and was answered Gone.
FoundStale(r, c) ==
    {k \in 1..Len(r.out) : r.conns[k] = c /\ r.out[k] = "gone"}

\* C29: when two concurrent broadcasts have both enumerated a connection and
\* were both answered Gone for it, both complete with 200, each has pushed
\* once to every connection it enumerated, the record is absent afterwards,
\* and the delete of each of them counts as a removal, not as an error.
C29_ConcurrentReap ==
    DOMAIN bc = Pair =>
        \A c \in ConnIds :
            /\ \A b \in Pair : bc[b].pc = "done" /\ FoundStale(bc[b], c) # {}
            => /\ c \notin dir
               /\ \A b \in Pair :
                     /\ bc[b].status = 200
                     /\ \A k \in 1..Len(bc[b].att) : bc[b].att[k] = 1
                     /\ \A k \in FoundStale(bc[b], c) : bc[b].res[k] = "reaped"
                     /\ bc[b].stale >= 1
                     /\ ~bc[b].storeFailed

\* Both broadcasts were in their push phase together, both were answered
\* Gone for connection c, and both have completed.
C29_Witness ==
    /\ DOMAIN bc = Pair
    /\ \E c \in ConnIds :
          /\ c \notin dir
          /\ \A b \in Pair :
                /\ bc[b].pc = "done" /\ bc[b].status = 200
                /\ FoundStale(bc[b], c) # {}
                /\ Len(bc[b].conns) > 1

====
